---- MODULE Spec2Model ----
(***************************************************************************)
(* A model of lnsp/transaction: the monetary Value (rendering and          *)
(* parsing), the in-memory Database (Store / Delete / Read, both the       *)
(* earlier and the corrected bounds check) and the persistence layer       *)
(* (Open / Write and the composite Store / Get / Delete commands run by    *)
(* concurrent invocations against one file).                               *)
(*                                                                         *)
(* Four specifications share the module:                                   *)
(*   SpecValue   Value.String and Parse applied to a bounded range,        *)
(*   SpecLedger  one in-memory Database under Store / Delete / Read,       *)
(*   SpecQuery   the list and filter commands' loops on bounded ledgers,   *)
(*   Spec        invocations of the commands against the database file.    *)
(***************************************************************************)
EXTENDS Integers, Sequences, FiniteSets, TLC

VARIABLES
    \* ---- SpecValue
    val,        \* the Value under test
    text,       \* the text Value.String produced (a sequence of characters)
    parsed,     \* the Value Parse produced
    vpc,        \* "start" | "rendered" | "parsed"
    \* ---- SpecLedger
    db,         \* the Database: [Name, Transactions]
    now,        \* the clock NewTransaction reads (time.Now)
    stored,     \* ghost: every transaction handed to Database.Store
    removed,    \* ghost: every transaction a successful Delete took out
    last,       \* ghost: the last call, its arguments, pre-state and result
    \* ---- SpecQuery (with db)
    query,      \* the last list / filter command: arguments, idMap, balance
    \* ---- Spec
    file,       \* the database file: NoFile, or its content (a token sequence)
    proc,       \* per invocation: position, command, locals and results
    lw,         \* ghost: the last Write that returned, and whether it ran alone
    calls       \* the number of commands started

valueVars  == <<val, text, parsed, vpc>>
ledgerVars == <<db, now, stored, removed, last, query>>
fileVars   == <<file, proc, lw, calls>>
vars       == <<val, text, parsed, vpc, db, now, stored, removed, last, query,
                file, proc, lw, calls>>

(***************************************************************************)
(* Bounds of the model.                                                    *)
(***************************************************************************)
MaxValue == 250     \* Values range over -MaxValue .. MaxValue in SpecValue
MaxClock == 3       \* NewTransaction is called at most MaxClock times
MaxCalls == 2       \* at most MaxCalls commands are started in Spec
MaxTx    == 3       \* the ledgers of SpecQuery hold at most MaxTx transactions

(***************************************************************************)
(* Go integer arithmetic: / truncates toward zero, % takes the sign of the *)
(* dividend.                                                               *)
(***************************************************************************)
Quot(a, b) == IF a >= 0 THEN a \div b ELSE -((-a) \div b)
Rem(a, b)  == a - b * Quot(a, b)

(***************************************************************************)
(* Monetary Value                                                          *)
(***************************************************************************)
Ratio == 100                      \* Euro.Ratio

Withdraw == "withdraw"
Deposit  == "deposit"
ZeroValue == 0

abs(x) == IF x < ZeroValue THEN -x ELSE x

Add(v, a) == v + a

Digits == <<"0", "1", "2", "3", "4", "5", "6", "7", "8", "9">>
IsDigit(c) == \E d \in 1..10 : Digits[d] = c
DigitVal(c) == (CHOOSE d \in 1..10 : Digits[d] = c) - 1

RECURSIVE FormatNat(_)
FormatNat(n) ==
    IF n < 10 THEN <<Digits[n + 1]>>
    ELSE FormatNat(n \div 10) \o <<Digits[(n % 10) + 1]>>

\* fmt verb %d
FmtD(n) == IF n < 0 THEN <<"-">> \o FormatNat(-n) ELSE FormatNat(n)

\* fmt verb %02d: zero padding to width 2, the sign counting for the width
Fmt02D(n) ==
    IF n < 0 THEN <<"-">> \o FormatNat(-n)
    ELSE IF n < 10 THEN <<"0">> \o FormatNat(n)
    ELSE FormatNat(n)

\* Value.String with the format "%d.%02d" followed by the currency sign
String(v) == FmtD(Quot(v, Ratio)) \o <<".">> \o Fmt02D(abs(Rem(v, Ratio))) \o <<"EUR">>

\* fmt.Sscanf, verb %d with the width wid: an optional sign, then digits, at
\* most wid characters in all.  [ok, val, next]
RECURSIVE ScanDigits(_, _, _, _)
ScanDigits(s, i, left, acc) ==
    IF left > 0 /\ i <= Len(s) /\ IsDigit(s[i])
    THEN ScanDigits(s, i + 1, left - 1, acc * 10 + DigitVal(s[i]))
    ELSE [val |-> acc, next |-> i]

ScanInt(s, i, wid) ==
    LET signed == wid > 0 /\ i <= Len(s) /\ s[i] \in {"-", "+"}
        neg    == signed /\ s[i] = "-"
        from   == IF signed THEN i + 1 ELSE i
        room   == IF signed THEN wid - 1 ELSE wid
        r      == ScanDigits(s, from, room, 0)
    IN  IF r.next = from
        THEN [ok |-> FALSE, val |-> 0, next |-> from]
        ELSE [ok |-> TRUE, val |-> IF neg THEN -r.val ELSE r.val, next |-> r.next]

\* Parse: Sscanf(in, "%d.%02d<sign>", &maj, &min), the error ignored; an operand
\* the scan did not reach keeps its zero value
Parse(in) ==
    LET a    == ScanInt(in, 1, Len(in) + 1)     \* no width: no limit
        maj  == IF a.ok THEN a.val ELSE 0
        dot  == a.ok /\ a.next <= Len(in) /\ in[a.next] = "."
        b    == IF dot THEN ScanInt(in, a.next + 1, 2)
                ELSE [ok |-> FALSE, val |-> 0, next |-> a.next]
        min  == IF b.ok THEN b.val ELSE 0
    IN  maj * Ratio + Rem(min, Ratio)

(***************************************************************************)
(* Transaction and Database (the in-memory ledger)                         *)
(***************************************************************************)
Nil      == "nil"
NotFound == "errTransactionNotFound"
Panic    == "panic"               \* a run-time panic: slice or index out of range

NewTransaction(name, action, amount, t) ==
    [Name |-> name, Amount |-> amount, Type |-> action, Date |-> t]

\* Transaction{}: the zero value Read returns with an error
ZeroTransaction == [Name |-> "", Amount |-> 0, Type |-> "", Date |-> 0]

NewDatabase(name) == [Name |-> name, Transactions |-> <<>>]

\* Database{}: the zero value Open returns with an error or for corrupt content
ZeroDatabase == [Name |-> "", Transactions |-> <<>>]

Size(d) == Len(d.Transactions)

\* Go indexes from 0: s[i]
At(s, i) == s[i + 1]

\* mutant of Database.Store: the new transaction goes to the front
StorePrepends(d, transact) ==
    [d EXCEPT !.Transactions = <<transact>> \o @]

\* Database.Store: append
DatabaseStore(d, transact) ==
    [d EXCEPT !.Transactions = Append(@, transact)]

\* mutant of Database.Delete: the tail is not appended back
DeleteDropsTail(d, ID) ==
    IF ID < 0 \/ ID >= Size(d)
    THEN [db |-> d, err |-> NotFound]
    ELSE [db |-> [d EXCEPT !.Transactions = SubSeq(@, 1, ID)], err |-> Nil]

\* mutant of Database.Delete: the element after ID is taken out
DeleteOffByOne(d, ID) ==
    IF ID < 0 \/ ID >= Size(d)
    THEN [db |-> d, err |-> NotFound]
    ELSE [db  |-> [d EXCEPT !.Transactions =
                        SubSeq(@, 1, ID + 1) \o SubSeq(@, ID + 3, Len(@))],
          err |-> Nil]

\* Database.Delete, the corrected bounds check:
\* append(Transactions[:ID], Transactions[ID+1:]...)
DatabaseDelete(d, ID) ==
    IF ID < 0 \/ ID >= Size(d)
    THEN [db |-> d, err |-> NotFound]
    ELSE [db  |-> [d EXCEPT !.Transactions =
                        SubSeq(@, 1, ID) \o SubSeq(@, ID + 2, Len(@))],
          err |-> Nil]

\* Database.Read, the corrected bounds check
DatabaseRead(d, ID) ==
    IF ID < 0 \/ ID >= Size(d)
    THEN [tx |-> ZeroTransaction, err |-> NotFound]
    ELSE [tx |-> At(d.Transactions, ID), err |-> Nil]

\* Database.Delete, the earlier variant: the inverted check rejects every valid
\* ID; for every other ID one of the two slice expressions is out of range
\* (Transactions[:ID] for ID < 0 or ID > cap, Transactions[ID+1:] for ID >= len)
\* and the call panics before anything is assigned.
DatabaseDeleteOld(d, ID) ==
    IF ID > -1 /\ ID < Size(d)
    THEN [db |-> d, err |-> NotFound]
    ELSE IF ID < 0 \/ ID + 1 > Size(d)
    THEN [db |-> d, err |-> Panic]
    ELSE [db  |-> [d EXCEPT !.Transactions =
                        SubSeq(@, 1, ID) \o SubSeq(@, ID + 2, Len(@))],
          err |-> Nil]

\* Database.Read, the earlier variant: the same inverted check, then an index
\* out of range
DatabaseReadOld(d, ID) ==
    IF ID > -1 /\ ID < Size(d)
    THEN [tx |-> ZeroTransaction, err |-> NotFound]
    ELSE IF ID < 0 \/ ID >= Size(d)
    THEN [tx |-> ZeroTransaction, err |-> Panic]
    ELSE [tx |-> At(d.Transactions, ID), err |-> Nil]

(***************************************************************************)
(* SpecValue: Value.String, then Parse, on every Value of the range        *)
(***************************************************************************)
Values == (0 - MaxValue) .. MaxValue

ValueOff == val = 0 /\ text = <<>> /\ parsed = 0 /\ vpc = "off"

LastNone == [op |-> "none", id |-> 0, tx |-> ZeroTransaction, pre |-> <<>>,
             err |-> Nil, out |-> ZeroTransaction]

\* no list or filter command has run
NoQuery == [op |-> "none"]

LedgerOff ==
    /\ db = ZeroDatabase /\ now = 0 /\ stored = {} /\ removed = {}
    /\ last = LastNone /\ query = NoQuery

Procs == {"p1", "p2"}

\* no file at defaultDatabasePath
NoFile == <<[k |-> "ENOENT", v |-> [name |-> "", amount |-> 0, type |-> "", date |-> 0]]>>

NoCmd == [name |-> "none", tx |-> ZeroTransaction, id |-> 0, dbname |-> "",
          force |-> FALSE]

NoWrite == [valid |-> FALSE, by |-> "none", db |-> ZeroDatabase, io |-> "none"]

\* an invocation that has not run anything yet
Fresh(c, at) ==
    [pc |-> at, cmd |-> c,
     snap |-> NoFile,                                   \* what ReadFile returned
     opened |-> [called |-> FALSE, db |-> ZeroDatabase, err |-> Nil],
     ldb |-> ZeroDatabase,                              \* the local Database
     buf |-> <<>>,                                      \* json.Marshal's output
     ret |-> Nil,                                       \* the command's error
     got |-> ZeroTransaction,                           \* Get's transaction
     seen |-> [some |-> FALSE, tx |-> ZeroTransaction,  \* deleteAction: Get's
               db |-> ZeroDatabase],                    \* result and its ledger
     gone |-> [some |-> FALSE, pre |-> ZeroDatabase,    \* ghost: the ledger
               post |-> ZeroDatabase],                  \* Delete opened, and left
     io |-> "none",                                     \* ghost: WriteFile's result
     expect |-> [some |-> FALSE, db |-> ZeroDatabase, io |-> "none"],  \* ghost
     before |-> <<>>,                                   \* ghost: file at O_TRUNC
     alone |-> FALSE]                                   \* ghost

FileOff ==
    /\ file = NoFile
    /\ proc = [p \in Procs |-> Fresh(NoCmd, "off")]
    /\ lw = NoWrite
    /\ calls = 0

InitValue ==
    /\ val \in Values /\ text = <<>> /\ parsed = 0 /\ vpc = "start"
    /\ LedgerOff /\ FileOff

\* text = v.String()
Render ==
    /\ vpc = "start"
    /\ text' = String(val)
    /\ vpc' = "rendered"
    /\ UNCHANGED <<val, parsed>>
    /\ UNCHANGED ledgerVars /\ UNCHANGED fileVars

\* parsed = Parse(text)
ParseBack ==
    /\ vpc = "rendered"
    /\ parsed' = Parse(text)
    /\ vpc' = "parsed"
    /\ UNCHANGED <<val, text>>
    /\ UNCHANGED ledgerVars /\ UNCHANGED fileVars

NextValue == Render \/ ParseBack

SpecValue == InitValue /\ [][NextValue]_vars

(***************************************************************************)
(* SpecLedger: one Database in memory.  NewTransaction stamps time.Now();  *)
(* the clock advances with every call, so every stored transaction is a    *)
(* distinct value.                                                         *)
(***************************************************************************)
LedgerNames == {"Home", "Budget"}
TxInputs == { <<"Salary", Deposit, 500>>, <<"Rent", Withdraw, 200>>,
              <<"Rent", Withdraw, 50>> }

\* the IDs tried: every valid one, and invalid ones on both sides
IDs(d) == (0 - 2) .. (Size(d) + 1)

InitLedger ==
    /\ \E n \in LedgerNames : db = NewDatabase(n)
    /\ now = 1 /\ stored = {} /\ removed = {}
    /\ last = LastNone /\ query = NoQuery
    /\ ValueOff /\ FileOff

\* db.Store(NewTransaction(name, action, amount))
LStore ==
    /\ now <= MaxClock
    /\ \E i \in TxInputs :
         LET t == NewTransaction(i[1], i[2], i[3], now) IN
         /\ db' = DatabaseStore(db, t)
         /\ stored' = stored \cup {t}
         /\ last' = [op |-> "Store", id |-> 0, tx |-> t, pre |-> db.Transactions,
                     err |-> Nil, out |-> ZeroTransaction]
    /\ now' = now + 1
    /\ UNCHANGED <<removed, query>>
    /\ UNCHANGED valueVars /\ UNCHANGED fileVars

\* err = db.Delete(ID), corrected variant
LDelete ==
    /\ \E ID \in IDs(db) :
         LET r == DatabaseDelete(db, ID) IN
         /\ db' = r.db
         /\ removed' = IF r.err = Nil THEN removed \cup {At(db.Transactions, ID)}
                       ELSE removed
         /\ last' = [op |-> "Delete", id |-> ID, tx |-> ZeroTransaction,
                     pre |-> db.Transactions, err |-> r.err,
                     out |-> ZeroTransaction]
    /\ UNCHANGED <<now, stored, query>>
    /\ UNCHANGED valueVars /\ UNCHANGED fileVars

\* transact, err = db.Read(ID), corrected variant
LRead ==
    /\ \E ID \in IDs(db) :
         LET r == DatabaseRead(db, ID) IN
         last' = [op |-> "Read", id |-> ID, tx |-> ZeroTransaction,
                  pre |-> db.Transactions, err |-> r.err, out |-> r.tx]
    /\ UNCHANGED <<db, now, stored, removed, query>>
    /\ UNCHANGED valueVars /\ UNCHANGED fileVars

\* err = db.Delete(ID), earlier variant
LDeleteOld ==
    /\ \E ID \in IDs(db) :
         LET r == DatabaseDeleteOld(db, ID) IN
         /\ db' = r.db
         /\ removed' = IF r.err = Nil THEN removed \cup {At(db.Transactions, ID)}
                       ELSE removed
         /\ last' = [op |-> "DeleteOld", id |-> ID, tx |-> ZeroTransaction,
                     pre |-> db.Transactions, err |-> r.err,
                     out |-> ZeroTransaction]
    /\ UNCHANGED <<now, stored, query>>
    /\ UNCHANGED valueVars /\ UNCHANGED fileVars

\* transact, err = db.Read(ID), earlier variant
LReadOld ==
    /\ \E ID \in IDs(db) :
         LET r == DatabaseReadOld(db, ID) IN
         last' = [op |-> "ReadOld", id |-> ID, tx |-> ZeroTransaction,
                  pre |-> db.Transactions, err |-> r.err, out |-> r.tx]
    /\ UNCHANGED <<db, now, stored, removed, query>>
    /\ UNCHANGED valueVars /\ UNCHANGED fileVars

NextLedger == LStore \/ LDelete \/ LRead \/ LDeleteOld \/ LReadOld

SpecLedger == InitLedger /\ [][NextLedger]_vars

(***************************************************************************)
(* Claims about the in-memory Database (SpecLedger)                        *)
(***************************************************************************)
ValidID(id, s) == 0 <= id /\ id < Len(s)

\* C1: for a valid index i the corrected Database.Delete(i) returns no error,
\* Size() drops by exactly 1, every transaction that was at j > i is at j-1 and
\* every transaction that was at j < i stays at j.
C1_DeleteShiftsDown ==
    (last.op = "Delete" /\ ValidID(last.id, last.pre)) =>
        /\ last.err = Nil
        /\ Size(db) = Len(last.pre) - 1
        /\ \A j \in 0 .. (Len(last.pre) - 1) :
              /\ j > last.id => At(db.Transactions, j - 1) = At(last.pre, j)
              /\ j < last.id => At(db.Transactions, j) = At(last.pre, j)

\* a Delete of a middle element: transactions before it and after it
C1_Witness ==
    /\ last.op = "Delete" /\ last.err = Nil
    /\ 0 < last.id /\ last.id < Len(last.pre) - 1

\* C3: for every index i < 0 or i >= Size(), Database.Delete(i), in either
\* variant of the package, returns NotFound and leaves the sequence as it was.
C3_DeleteInvalidNotFound ==
    (last.op \in {"Delete", "DeleteOld"} /\ ~ValidID(last.id, last.pre)) =>
        /\ last.err = NotFound
        /\ db.Transactions = last.pre

\* The corrected Database.Delete alone does what C3 says.
DeleteInvalidNotFoundCorrected ==
    (last.op = "Delete" /\ ~ValidID(last.id, last.pre)) =>
        /\ last.err = NotFound
        /\ db.Transactions = last.pre

\* C4: Database.Read(id), in either variant of the package, succeeds exactly
\* when 0 <= id < Size() and then returns the transaction at id; for every other
\* id it returns NotFound and nothing else; the ledger is left unchanged.
C4_ReadTotal ==
    (last.op \in {"Read", "ReadOld"}) =>
        /\ ValidID(last.id, last.pre) =>
              last.err = Nil /\ last.out = At(last.pre, last.id)
        /\ ~ValidID(last.id, last.pre) => last.err = NotFound
        /\ db.Transactions = last.pre

\* The corrected Database.Read alone does what C4 says.
ReadTotalCorrected ==
    (last.op = "Read") =>
        /\ ValidID(last.id, last.pre) =>
              last.err = Nil /\ last.out = At(last.pre, last.id)
        /\ ~ValidID(last.id, last.pre) => last.err = NotFound
        /\ db.Transactions = last.pre

\* C5: Database.Store(t) always succeeds and appends t at the end: Size() is
\* the prior size plus 1, Read(prior size) returns t, every transaction below
\* the prior size is unchanged; on an empty ledger Read(0) returns t and
\* Size() = 1.
C5_StoreAppends ==
    (last.op = "Store") =>
        /\ last.err = Nil
        /\ Size(db) = Len(last.pre) + 1
        /\ DatabaseRead(db, Len(last.pre)) = [tx |-> last.tx, err |-> Nil]
        /\ \A j \in 0 .. (Len(last.pre) - 1) :
              DatabaseRead(db, j) = [tx |-> At(last.pre, j), err |-> Nil]
        /\ last.pre = <<>> =>
              DatabaseRead(db, 0).tx = last.tx /\ Size(db) = 1

\* a Store onto a ledger that already holds two transactions
C5_Witness == last.op = "Store" /\ Len(last.pre) >= 2 /\ Size(db) = 3

\* C6: after any sequence of Store and Delete the ledger holds exactly the
\* stored transactions no successful Delete removed, in the order of their
\* Store calls (the Date is the clock of the call); a transaction stored after
\* a Delete is at the last index.
C6_StoredMinusRemovedInOrder ==
    /\ {db.Transactions[i] : i \in 1 .. Size(db)} = stored \ removed
    /\ \A i, j \in 1 .. Size(db) :
          i < j => db.Transactions[i].Date < db.Transactions[j].Date
    /\ last.op = "Store" => At(db.Transactions, Size(db) - 1) = last.tx

\* an amendment: something was deleted, then a Store onto what was left
C6_Witness ==
    /\ removed # {} /\ last.op = "Store" /\ Size(db) >= 2
    /\ \E r \in removed : r.Date < db.Transactions[1].Date

(***************************************************************************)
(* Claims about the monetary Value (SpecValue)                             *)
(***************************************************************************)
\* C10: Parse(Render(v)) = v for every Value v, negative ones and ones of
\* magnitude below one major unit included.
C10_ParseRenderRoundTrip == vpc = "parsed" => parsed = val

\* The round trip holds of every Value that is not negative.
RoundTripNonNegative == (vpc = "parsed" /\ val >= 0) => parsed = val

\* Among the negative Values exactly the whole multiples of Ratio survive.
RoundTripNegative ==
    (vpc = "parsed" /\ val < 0) => (parsed = val <=> Rem(val, Ratio) = 0)

(***************************************************************************)
(* Persistence: encoding/json on Database, and the file                    *)
(*                                                                         *)
(* The file content is a sequence of tokens [k, v]: "{", the name member,  *)
(* "[", one object per transaction, "]", "}".  A member's value v has the  *)
(* keys of the struct tags (name, amount, type, date).                     *)
(***************************************************************************)
InvalidUTF8 == "caf<E9>"          \* a string holding a byte that is not UTF-8
Replaced    == "caf<FFFD>"        \* the same with U+FFFD in the byte's place

\* encoding/json: strings are coerced to valid UTF-8
ToValidUTF8(str) == IF str = InvalidUTF8 THEN Replaced ELSE str

JSONZero == [name |-> "", amount |-> 0, type |-> "", date |-> 0]

Tok(kind) == [k |-> kind, v |-> JSONZero]

\* a Transaction as a JSON object, by the struct tags
TxObject(t) ==
    [k |-> "tx",
     v |-> [name |-> ToValidUTF8(t.Name), amount |-> t.Amount,
            type |-> ToValidUTF8(t.Type), date |-> t.Date]]

NameMember(str) == [k |-> "name", v |-> [JSONZero EXCEPT !.name = ToValidUTF8(str)]]

\* json.Marshal(database).  It fails only for a Date whose year is outside
\* 0..9999, which no Date of the model is, so the error return of Write's
\* first lines is not taken.
Marshal(d) ==
    <<Tok("{"), NameMember(d.Name), Tok("[")>>
    \o [i \in 1 .. Size(d) |-> TxObject(d.Transactions[i])]
    \o <<Tok("]"), Tok("}")>>

\* content that is no ledger JSON
Garbage == <<Tok("garbage")>>

WellFormed(bytes) ==
    /\ bytes # NoFile
    /\ Len(bytes) >= 5
    /\ bytes[1].k = "{" /\ bytes[2].k = "name" /\ bytes[3].k = "["
    /\ bytes[Len(bytes) - 1].k = "]" /\ bytes[Len(bytes)].k = "}"
    /\ \A i \in 4 .. (Len(bytes) - 2) : bytes[i].k = "tx"

\* json.Unmarshal(bytes, &database): [ok, db]
Unmarshal(bytes) ==
    IF WellFormed(bytes)
    THEN [ok |-> TRUE,
          db |-> [Name |-> bytes[2].v.name,
                  Transactions |->
                      [i \in 1 .. (Len(bytes) - 5) |->
                          [Name   |-> bytes[i + 3].v.name,
                           Amount |-> bytes[i + 3].v.amount,
                           Type   |-> bytes[i + 3].v.type,
                           Date   |-> bytes[i + 3].v.date]]]]
    ELSE [ok |-> FALSE, db |-> ZeroDatabase]

\* ioutil.ReadFile: the bytes and the error (the one read error of the model
\* is the missing file)
ReadFile(f) ==
    IF f = NoFile THEN [bytes |-> <<>>, err |-> "ENOENT"]
    ELSE [bytes |-> f, err |-> Nil]

\* mutant of Open: content that does not deserialize is reported
OpenReportsCorrupt(f) ==
    LET r == ReadFile(f)
        u == Unmarshal(r.bytes)
    IN  IF r.err # Nil THEN [db |-> ZeroDatabase, err |-> r.err]
        ELSE IF ~u.ok THEN [db |-> ZeroDatabase, err |-> "SyntaxError"]
        ELSE [db |-> u.db, err |-> Nil]

\* Open: [db, err]
Open(f) ==
    LET r == ReadFile(f)
        u == Unmarshal(r.bytes)
    IN  IF r.err # Nil THEN [db |-> ZeroDatabase, err |-> r.err]
        ELSE IF ~u.ok THEN [db |-> ZeroDatabase, err |-> Nil]
        ELSE [db |-> u.db, err |-> Nil]

\* Exists: os.Stat does not say IsNotExist
Exists(f) == f # NoFile

\* what ioutil.WriteFile can answer when it opens the file for writing
WriteFileErrors == {Nil, "EACCES"}

\* what Write returns, given what ioutil.WriteFile returned: the result of
\* WriteFile is dropped and Write returns nil
WriteErr(ioerr) == Nil

\* a write of data at offset 0 of the file opened with O_TRUNC: what another
\* writer put beyond the end of data meanwhile stays
Overlay(old, data) == data \o SubSeq(old, Len(data) + 1, Len(old))

(***************************************************************************)
(* Spec: invocations of the commands against the one database file.  An    *)
(* invocation steps at each access to the file: os.Stat, ioutil.ReadFile,  *)
(* and the two halves of ioutil.WriteFile (open with O_TRUNC, then write). *)
(***************************************************************************)
DbNames  == {"Home", InvalidUTF8}
StoreTxs == { NewTransaction("Salary", Deposit, 500, 1),
              NewTransaction("Rent", Withdraw, 200, 2) }
CmdIDs   == {0 - 1, 0, 1}

\* init --force with either name, init without --force, the composite calls
\* db.Store, db.Delete and db.Get, and the delete command "rm" (the ID of get
\* and rm is never negative here: Database.Read has the case in SpecLedger)
Commands ==
    {[NoCmd EXCEPT !.name = "init", !.dbname = n, !.force = TRUE] : n \in DbNames}
    \cup {[NoCmd EXCEPT !.name = "init", !.dbname = "Home"]}
    \cup {[NoCmd EXCEPT !.name = "store", !.tx = t] : t \in StoreTxs}
    \cup {[NoCmd EXCEPT !.name = "delete", !.id = i] : i \in CmdIDs}
    \cup {[NoCmd EXCEPT !.name = "get", !.id = i] : i \in CmdIDs \cap Nat}
    \cup {[NoCmd EXCEPT !.name = "rm", !.id = i] : i \in CmdIDs \cap Nat}

\* a ledger persisted by earlier invocations (init, then one store)
Persisted ==
    Marshal(DatabaseStore(NewDatabase("Home"),
                          NewTransaction("Rent", Withdraw, 50, 0)))

\* the same after one more store
PersistedTwo ==
    Marshal(DatabaseStore(Unmarshal(Persisted).db,
                          NewTransaction("Salary", Deposit, 500, 1)))

InitFile ==
    /\ file \in {NoFile, Garbage, Persisted, PersistedTwo}
    /\ proc = [p \in Procs |-> Fresh(NoCmd, "idle")]
    /\ lw = NoWrite
    /\ calls = 0
    /\ ValueOff /\ LedgerOff

Writing(p) == proc[p].pc = "data"

\* the command line is read: a new invocation starts
Begin(p) ==
    /\ proc[p].pc \in {"idle", "done", "crashed"}
    /\ calls < MaxCalls
    /\ \E c \in Commands :
         proc' = [proc EXCEPT ![p] =
                     Fresh(c, IF c.name = "init" THEN "stat" ELSE "open")]
    /\ calls' = calls + 1
    /\ UNCHANGED <<file, lw>>
    /\ UNCHANGED valueVars /\ UNCHANGED ledgerVars

\* initAction up to its Write: db.Exists() && !force aborts (status is never
\* read from the console), otherwise database = NewDatabase(name) is marshalled
InitStat(p) ==
    /\ proc[p].pc = "stat"
    /\ LET c == proc[p].cmd
           d == NewDatabase(c.dbname)
       IN  proc' = [proc EXCEPT ![p] =
                IF Exists(file) /\ ~c.force
                THEN [@ EXCEPT !.pc = "done", !.ret = Nil]
                ELSE [@ EXCEPT !.pc = "trunc", !.ldb = d, !.buf = Marshal(d)]]
    /\ UNCHANGED <<file, lw, calls>>
    /\ UNCHANGED valueVars /\ UNCHANGED ledgerVars

\* the local part of a composite call after Open returned o: Store, Delete
\* or Get up to its return or its Write.  The delete command calls Get, asks
\* for confirmation, then calls Delete.
AfterOpen(st, o) ==
    LET c == st.cmd IN
    IF o.err # Nil THEN [st EXCEPT !.pc = "done", !.ret = o.err]
    ELSE IF c.name = "store"
    THEN LET d == DatabaseStore(o.db, c.tx)
         IN  [st EXCEPT !.pc = "trunc", !.ldb = d, !.buf = Marshal(d)]
    ELSE IF c.name = "delete" \/ (c.name = "rm" /\ st.seen.some)
    THEN LET r == DatabaseDelete(o.db, c.id)
         IN  IF r.err # Nil THEN [st EXCEPT !.pc = "done", !.ret = r.err]
             ELSE [st EXCEPT !.pc = "trunc", !.ldb = r.db, !.buf = Marshal(r.db),
                             !.gone = [some |-> TRUE, pre |-> o.db,
                                       post |-> r.db]]
    ELSE LET r == DatabaseRead(o.db, c.id)
         IN  IF c.name = "rm" /\ r.err = Nil
             THEN [st EXCEPT !.pc = "confirm", !.got = r.tx,
                             !.seen = [some |-> TRUE, tx |-> r.tx, db |-> o.db]]
             ELSE [st EXCEPT !.pc = "done", !.ret = r.err, !.got = r.tx]

\* database, err := Open(), and what follows it without touching the file
OpenStep(p) ==
    /\ proc[p].pc = "open"
    /\ LET o == Open(file)
           e == IF lw.valid /\ \A q \in Procs : ~Writing(q)
                THEN [some |-> TRUE, db |-> lw.db, io |-> lw.io]
                ELSE [some |-> FALSE, db |-> ZeroDatabase, io |-> "none"]
           st == [proc[p] EXCEPT !.snap = file,
                                 !.opened = [called |-> TRUE, db |-> o.db,
                                             err |-> o.err],
                                 !.expect = e]
       IN  proc' = [proc EXCEPT ![p] = AfterOpen(st, o)]
    /\ UNCHANGED <<file, lw, calls>>
    /\ UNCHANGED valueVars /\ UNCHANGED ledgerVars

\* deleteAction: the transaction is displayed and the confirmation read;
\* any answer but "y" aborts with no error, "y" goes on to db.Delete(ID)
Confirm(p) ==
    /\ proc[p].pc = "confirm"
    /\ \E confirmation \in {"y", "n"} :
         proc' = [proc EXCEPT ![p] =
                     IF confirmation # "y"
                     THEN [@ EXCEPT !.pc = "done", !.ret = Nil]
                     ELSE [@ EXCEPT !.pc = "open"]]
    /\ UNCHANGED <<file, lw, calls>>
    /\ UNCHANGED valueVars /\ UNCHANGED ledgerVars

\* mutant of the truncation: the previous content stays until it is
\* overwritten
KeepsContent(f) == f

\* what O_TRUNC makes of the file
Truncated(f) == <<>>

\* Write, first half: ioutil.WriteFile opens the file with O_CREATE|O_TRUNC.
\* If that fails the file is untouched and Write returns at once.
WriteTrunc(p) ==
    /\ proc[p].pc = "trunc"
    /\ \E ioerr \in WriteFileErrors :
         IF ioerr = Nil
         THEN /\ file' = Truncated(file)
              /\ proc' = [q \in Procs |->
                            IF q = p
                            THEN [proc[q] EXCEPT !.pc = "data",
                                      !.before = file,
                                      !.alone = \A r \in Procs : ~Writing(r)]
                            ELSE [proc[q] EXCEPT !.alone = FALSE]]
              /\ lw' = [lw EXCEPT !.valid = FALSE]
         ELSE /\ file' = file
              /\ proc' = [proc EXCEPT ![p] =
                            [@ EXCEPT !.pc = "done", !.io = ioerr,
                                      !.ret = WriteErr(ioerr)]]
              /\ lw' = [valid |-> \A r \in Procs : ~Writing(r), by |-> p,
                        db |-> proc[p].ldb, io |-> ioerr]
    /\ UNCHANGED calls
    /\ UNCHANGED valueVars /\ UNCHANGED ledgerVars

\* Write, second half: the marshalled bytes are written and Write returns
WriteData(p) ==
    /\ proc[p].pc = "data"
    /\ file' = Overlay(file, proc[p].buf)
    /\ proc' = [q \in Procs |->
                  IF q = p
                  THEN [proc[q] EXCEPT !.pc = "done", !.io = "written",
                                       !.ret = WriteErr(Nil)]
                  ELSE [proc[q] EXCEPT !.alone = FALSE]]
    /\ lw' = [valid |-> proc[p].alone, by |-> p, db |-> proc[p].ldb,
              io |-> "written"]
    /\ UNCHANGED calls
    /\ UNCHANGED valueVars /\ UNCHANGED ledgerVars

\* the invocation dies between the two halves of WriteFile
Crash(p) ==
    /\ proc[p].pc = "data"
    /\ proc' = [proc EXCEPT ![p] = [@ EXCEPT !.pc = "crashed"]]
    /\ UNCHANGED <<file, lw, calls>>
    /\ UNCHANGED valueVars /\ UNCHANGED ledgerVars

Next ==
    \E p \in Procs :
        \/ Begin(p) \/ InitStat(p) \/ OpenStep(p) \/ Confirm(p)
        \/ WriteTrunc(p) \/ WriteData(p) \/ Crash(p)

Spec == InitFile /\ [][Next]_vars

(***************************************************************************)
(* Claims about the persistence layer (Spec)                               *)
(***************************************************************************)
Done(p) == proc[p].pc = "done"

Mutator(p) == proc[p].cmd.name \in {"store", "delete"}

\* the ledger p's own mutation makes of the ledger it opened
OwnResult(p) ==
    LET c == proc[p].cmd
        o == proc[p].opened.db
    IN  IF c.name = "store"
        THEN [o EXCEPT !.Transactions = Append(@, c.tx)]
        ELSE [o EXCEPT !.Transactions =
                  [i \in 1 .. (Len(@) - 1) |->
                      IF i <= c.id THEN @[i] ELSE @[i + 1]]]

\* p and q raced: both mutators opened the same file content, both returned
\* success with their bytes written, q's write came last
Raced(p, q) ==
    /\ p # q /\ Done(p) /\ Done(q) /\ Mutator(p) /\ Mutator(q)
    /\ proc[p].ret = Nil /\ proc[q].ret = Nil
    /\ proc[p].io = "written" /\ proc[q].io = "written"
    /\ proc[p].snap = proc[q].snap
    /\ lw.by = q

\* C2: when two composite mutators raced on the same file content and both
\* returned success, the persisted ledger (where the file still deserializes)
\* is the opened ledger with only the mutation of the one that wrote last.
C2_LaterWriteWins ==
    \A p, q \in Procs :
        (Raced(p, q) /\ Unmarshal(file).ok) =>
            Unmarshal(file).db = OwnResult(q)

\* the lost update: two Store calls were the only commands run, both returned
\* success, and the transaction of the first is not in the file
C2_Witness ==
    \E p, q \in Procs :
        /\ Raced(p, q) /\ calls = 2
        /\ proc[p].cmd.name = "store" /\ proc[q].cmd.name = "store"
        /\ proc[p].cmd.tx # proc[q].cmd.tx
        /\ Unmarshal(file).ok
        /\ Size(Unmarshal(file).db) = 2
        /\ \A i \in 1 .. 2 : Unmarshal(file).db.Transactions[i] # proc[p].cmd.tx

\* C7: a Write(L) that completes, followed by an Open with no other writer in
\* between, returns L: the same name and the same transactions in order.
C7_WriteOpenRoundTrip ==
    \A p \in Procs :
        proc[p].expect.some =>
            proc[p].opened = [called |-> TRUE, db |-> proc[p].expect.db,
                              err |-> Nil]

\* What does hold: when WriteFile did write and the ledger's text is valid
\* UTF-8, the Open that follows returns the ledger written.
RoundTripWhenWritten ==
    \A p \in Procs :
        (/\ proc[p].expect.some
         /\ proc[p].expect.io = "written"
         /\ proc[p].expect.db.Name # InvalidUTF8) =>
            proc[p].opened = [called |-> TRUE, db |-> proc[p].expect.db,
                              err |-> Nil]

\* the command of p called Write
CalledWrite(p) == Done(p) /\ proc[p].io # "none"

\* C8: Write returns an error whenever the file could not be written and
\* success only when the marshalled ledger has replaced the file content, so
\* Store and Delete report an error whenever their mutation was not persisted.
C8_WriteReportsFailure ==
    \A p \in Procs :
        CalledWrite(p) =>
            /\ proc[p].io # "written" => proc[p].ret # Nil
            /\ proc[p].ret = Nil => proc[p].io = "written"

\* C9: Open has exactly three outcomes: the read error when the file cannot
\* be read; the empty ledger and no error when the content does not
\* deserialize; the deserialized ledger and no error otherwise.  Open never
\* modifies the file.
C9_OpenOutcomes ==
    /\ [](\A p \in Procs :
            proc[p].opened.called =>
                LET o == proc[p].opened
                    f == proc[p].snap
                IN  /\ f = NoFile => o.db = ZeroDatabase /\ o.err = "ENOENT"
                    /\ (f # NoFile /\ ~WellFormed(f)) =>
                           o.db = ZeroDatabase /\ o.err = Nil
                    /\ WellFormed(f) =>
                           /\ o.err = Nil
                           /\ o.db.Name = f[2].v.name
                           /\ Size(o.db) = Len(f) - 5
                           /\ \A i \in 1 .. Size(o.db) :
                                 /\ o.db.Transactions[i].Name = f[i + 3].v.name
                                 /\ o.db.Transactions[i].Amount = f[i + 3].v.amount
                                 /\ o.db.Transactions[i].Type = f[i + 3].v.type
                                 /\ o.db.Transactions[i].Date = f[i + 3].v.date)
    /\ [][\A p \in Procs :
            (proc[p].pc = "open" /\ proc'[p].pc # "open") => file' = file]_vars

\* an Open of content that does not deserialize returned the empty ledger and
\* no error, and the command went on to write
C9_Witness ==
    \E p \in Procs :
        /\ proc[p].opened.called
        /\ proc[p].snap = Garbage
        /\ proc[p].opened = [called |-> TRUE, db |-> ZeroDatabase, err |-> Nil]
        /\ proc[p].pc = "trunc"

\* p is between the two halves of WriteFile, or died there, and no other
\* invocation has written since p truncated the file
Interrupted(p) == proc[p].pc \in {"data", "crashed"} /\ proc[p].alone

\* C14: Write is not atomic.  While a Write is in progress, and for good when
\* the invocation dies there, the file is empty: it is not the marshalled
\* ledger being written, not the content from before the Write (where that
\* was a ledger), and it does not deserialize; an Open at that moment
\* returns the empty ledger and no error.
C14_WriteNotAtomic ==
    \A p \in Procs :
        Interrupted(p) =>
            /\ file = <<>>
            /\ file # proc[p].buf
            /\ Unmarshal(proc[p].before).ok => file # proc[p].before
            /\ ~Unmarshal(file).ok
            /\ Open(file) = [db |-> ZeroDatabase, err |-> Nil]

\* the only command run was a store on the persisted ledger; it died during
\* Write and left the truncated file
C14_Witness ==
    \E p \in Procs :
        /\ calls = 1 /\ proc[p].pc = "crashed" /\ proc[p].alone
        /\ proc[p].cmd.name = "store"
        /\ proc[p].before = Persisted
        /\ proc[p].buf = Marshal(proc[p].ldb) /\ Size(proc[p].ldb) = 2
        /\ file = <<>>

\* another invocation's Open ran while a Write was in progress and got the
\* empty ledger instead of the persisted one
C14_OpenDuringWrite ==
    \E p, q \in Procs :
        /\ p # q /\ Writing(p) /\ proc[p].alone
        /\ proc[p].before = Persisted
        /\ proc[q].opened = [called |-> TRUE, db |-> ZeroDatabase, err |-> Nil]
        /\ proc[q].snap = <<>>

\* Delete made the ledger it opened into the one it wrote by taking out t
TookOut(p, t) ==
    LET pre  == proc[p].gone.pre.Transactions
        post == proc[p].gone.post.Transactions
    IN  \E i \in 1 .. Len(pre) :
            /\ pre[i] = t
            /\ post = [j \in 1 .. (Len(pre) - 1) |->
                          IF j < i THEN pre[j] ELSE pre[j + 1]]

Deleted(p) ==
    /\ proc[p].cmd.name = "rm" /\ Done(p) /\ proc[p].ret = Nil
    /\ proc[p].gone.some

\* C15: the delete command removes exactly the transaction it displayed:
\* what db.Delete(ID) takes out of the ledger is what db.Get(ID) returned
\* earlier in the same command, whatever other invocations did in between.
C15_DeleteRemovesDisplayed ==
    \A p \in Procs : Deleted(p) => TookOut(p, proc[p].seen.tx)

IsPrefix(s, t) == Len(s) <= Len(t) /\ SubSeq(t, 1, Len(s)) = s

\* so it is when the ledger Delete opens begins with the ledger Get opened:
\* nothing happened in between, or only Store calls
DeleteRemovesDisplayedWhenKept ==
    \A p \in Procs :
        (/\ Deleted(p)
         /\ IsPrefix(proc[p].seen.db.Transactions, proc[p].gone.pre.Transactions))
        => TookOut(p, proc[p].seen.tx)

\* Rent was displayed; meanwhile another invocation deleted ID 0; Salary was
\* removed
C15_RaceWitness ==
    \E p \in Procs :
        /\ Deleted(p) /\ proc[p].cmd.id = 0
        /\ proc[p].seen.tx.Name = "Rent"
        /\ proc[p].gone.pre.Transactions # <<>>
        /\ proc[p].gone.pre.Transactions[1].Name = "Salary"
        /\ proc[p].gone.post.Transactions = <<>>

\* p ran db.Store, and the write it made or attempted is the last one to
\* the file, with no other writer at work meanwhile
StoreSettled(p) ==
    /\ proc[p].cmd.name = "store" /\ Done(p) /\ proc[p].opened.called
    /\ (proc[p].io # "none" => (lw.by = p /\ lw.valid))

Corrupt(f) == f # NoFile /\ ~WellFormed(f)

OnlyTx(t) == [Name |-> "", Transactions |-> <<t>>]

\* C16: db.Store(t) on a file that is readable but does not deserialize
\* returns no error and overwrites the file with the ledger of empty name
\* whose only transaction is t; on a file that cannot be read it returns
\* the IO error and does not write.
C16_StoreOnCorruptFile ==
    \A p \in Procs :
        StoreSettled(p) =>
            /\ Corrupt(proc[p].snap) =>
                   /\ proc[p].ret = Nil
                   /\ file = Marshal(OnlyTx(proc[p].cmd.tx))
                   /\ Unmarshal(file) = [ok |-> TRUE, db |-> OnlyTx(proc[p].cmd.tx)]
            /\ proc[p].snap = NoFile =>
                   /\ proc[p].ret = "ENOENT"
                   /\ proc[p].io = "none" /\ proc[p].buf = <<>>

\* the same where WriteFile did write
StoreOnCorruptWhenWritten ==
    \A p \in Procs :
        StoreSettled(p) =>
            /\ (Corrupt(proc[p].snap) /\ proc[p].io = "written") =>
                   /\ proc[p].ret = Nil
                   /\ file = Marshal(OnlyTx(proc[p].cmd.tx))
                   /\ Unmarshal(file) = [ok |-> TRUE, db |-> OnlyTx(proc[p].cmd.tx)]
            /\ proc[p].snap = NoFile =>
                   /\ proc[p].ret = "ENOENT"
                   /\ proc[p].io = "none" /\ proc[p].buf = <<>>

\* the file did not deserialize, WriteFile failed, Store returned no error
\* and the file is as it was
C16_NotWrittenWitness ==
    \E p \in Procs :
        /\ StoreSettled(p) /\ calls = 1
        /\ proc[p].snap = Garbage /\ proc[p].io = "EACCES"
        /\ proc[p].ret = Nil /\ file = Garbage

\* the file did not deserialize and Store replaced it by the one transaction
C16_OverwrittenWitness ==
    \E p \in Procs :
        /\ StoreSettled(p) /\ calls = 1
        /\ proc[p].snap = Garbage /\ proc[p].io = "written"
        /\ proc[p].ret = Nil /\ file = Marshal(OnlyTx(proc[p].cmd.tx))

(***************************************************************************)
(* Query layer: the list and filter commands                               *)
(***************************************************************************)
\* Value.Smaller, Value.Larger
Smaller(v, a) == v < a

\* mutant of Value.Larger: not strict
LargerOrEqual(v, a) == v >= a

Larger(v, a) == v > a

\* strings.ToLower(strings.TrimSpace(text)) on the texts of the model
LowerTrim(t) ==
    IF t = " WD " THEN "wd"
    ELSE IF t = "Deposit" THEN "deposit"
    ELSE t

isTypeDeposit(t) ==
    LET lc == LowerTrim(t) IN lc = "dp" \/ lc = "deposit" \/ lc = "depo"

isTypeWithdraw(t) ==
    LET lc == LowerTrim(t) IN lc = "wd" \/ lc = "withdraw" \/ lc = "draw"

\* sort.Ints on the keys of a map
RECURSIVE SortedIDs(_)
SortedIDs(S) ==
    IF S = {} THEN <<>>
    ELSE LET m == CHOOSE x \in S : \A y \in S : x <= y
         IN  <<m>> \o SortedIDs(S \ {m})

\* mutant of the balance loop: a withdrawal is added like a deposit
RECURSIVE BalanceAddsAll(_, _, _)
BalanceAddsAll(transactions, ids, balance) ==
    IF ids = <<>> THEN balance
    ELSE BalanceAddsAll(transactions, Tail(ids),
                        Add(balance, transactions[Head(ids)].Amount))

\* printTransactionTable: the loop over the sorted ids that keeps the balance
RECURSIVE BalanceLoop(_, _, _)
BalanceLoop(transactions, ids, balance) ==
    IF ids = <<>> THEN balance
    ELSE LET transact == transactions[Head(ids)]
             b == IF transact.Type = Withdraw
                  THEN Add(balance, 0 - transact.Amount)
                  ELSE IF transact.Type = Deposit
                  THEN Add(balance, transact.Amount)
                  ELSE balance
         IN  BalanceLoop(transactions, Tail(ids), b)

\* printTransactionTable(header, transactions): the balance it prints
TableBalance(transactions) ==
    BalanceLoop(transactions, SortedIDs(DOMAIN transactions), 0)

\* the earlier listAction: the balance over the whole ledger, by ascending ID
RECURSIVE ListAllLoop(_, _, _)
ListAllLoop(d, ID, balance) ==
    IF ID < Size(d)
    THEN LET r == DatabaseRead(d, ID)
             b == IF r.tx.Type = Withdraw THEN Add(balance, 0 - r.tx.Amount)
                  ELSE IF r.tx.Type = Deposit THEN Add(balance, r.tx.Amount)
                  ELSE balance
         IN  IF r.err # Nil THEN [err |-> r.err, balance |-> balance]
             ELSE ListAllLoop(d, ID + 1, b)
    ELSE [err |-> Nil, balance |-> balance]

(***************************************************************************)
(* Go's int near its ends.  TLC's integers cannot hold 2^63, so an int is  *)
(* the pair [hi, lo] standing for hi * 2^(w-1) + lo, with w the width of   *)
(* int and lo small: hi = 0 for the small numbers, hi = -1 and lo >= 0 for *)
(* those just above the least int, hi = 1 and lo < 0 for those just below  *)
(* the greatest.  Wrap is the wrap-around of Go's arithmetic.              *)
(***************************************************************************)
IntOf(n) == [hi |-> 0, lo |-> n]
MinInt   == [hi |-> 0 - 1, lo |-> 0]
MaxInt   == [hi |-> 1, lo |-> 0 - 1]

Wrap(x) ==
    IF x.hi >= 1 /\ x.lo >= 0 THEN [hi |-> x.hi - 2, lo |-> x.lo]
    ELSE IF x.hi <= 0 - 1 /\ x.lo < 0 THEN [hi |-> x.hi + 2, lo |-> x.lo]
    ELSE x

\* a - b and a >= b on int
IntSub(a, b) == Wrap([hi |-> a.hi - b.hi, lo |-> a.lo - b.lo])
IntGE(a, b)  == a.hi > b.hi \/ (a.hi = b.hi /\ a.lo >= b.lo)

\* listAction: for id := Size()-1; id >= 0 && id >= startValue; id--
RECURSIVE ListLoop(_, _, _, _)
ListLoop(d, id, startValue, idMap) ==
    IF id >= 0 /\ IntGE(IntOf(id), startValue)
    THEN LET r == DatabaseRead(d, id)
         IN  IF r.err # Nil THEN [err |-> r.err, idMap |-> idMap]
             ELSE ListLoop(d, id - 1, startValue, idMap @@ (id :> r.tx))
    ELSE [err |-> Nil, idMap |-> idMap]

\* listAction after Open: startValue := database.Size() - c.Int("limit")
Latest(d, limit) == ListLoop(d, Size(d) - 1, IntSub(IntOf(Size(d)), limit), <<>>)

\* filterAction: the four tests of one transaction; TRUE when it is kept
Keeps(transact, namePredicate, maxPredicate, minPredicate, typePredicate) ==
    /\ ~(namePredicate # "" /\ transact.Name # namePredicate)
    /\ ~(maxPredicate # ZeroValue /\ Smaller(maxPredicate, transact.Amount))
    /\ ~(minPredicate # ZeroValue /\ Larger(minPredicate, transact.Amount))
    /\ ~(typePredicate # ""
         /\ (\/ (isTypeDeposit(typePredicate) /\ transact.Type # Deposit)
             \/ (isTypeWithdraw(typePredicate) /\ transact.Type # Withdraw)))

\* filterAction: for id := 0; id < database.Size(); id++
RECURSIVE FilterLoop(_, _, _, _, _, _, _)
FilterLoop(d, id, namePredicate, maxPredicate, minPredicate, typePredicate, idMap) ==
    IF id < Size(d)
    THEN LET r == DatabaseRead(d, id)
         IN  IF r.err # Nil THEN [err |-> r.err, idMap |-> idMap]
             ELSE FilterLoop(d, id + 1, namePredicate, maxPredicate, minPredicate,
                             typePredicate,
                             IF Keeps(r.tx, namePredicate, maxPredicate,
                                      minPredicate, typePredicate)
                             THEN idMap @@ (id :> r.tx) ELSE idMap)
    ELSE [err |-> Nil, idMap |-> idMap]

\* filterAction after Open: the predicates are read from the flags, the two
\* amounts through Parse
Filter(d, name, maxText, minText, type) ==
    FilterLoop(d, 0, name, Parse(maxText), Parse(minText), type, <<>>)

(***************************************************************************)
(* SpecQuery: the list and filter commands on every ledger of at most      *)
(* MaxTx transactions.  The ledger is the one Open returned; the commands   *)
(* never write it back.  A behaviour is one invocation of one command.     *)
(***************************************************************************)
QueryInputs ==
    { <<"Salary", Deposit, 500>>,   <<"Rent", Withdraw, 200>>,
      <<"Salary", Deposit, 250000>>, <<"Rent", Withdraw, 90000>>,
      <<"rent", Withdraw, 50>>,     <<"Food", Withdraw, 150>>,
      <<"Gift", Deposit, 200>> }

QueryLedgers ==
    UNION { { [Name |-> "Home",
               Transactions |->
                   [i \in 1 .. n |-> NewTransaction(f[i][1], f[i][2], f[i][3], i)]]
              : f \in [1 .. n -> QueryInputs] }
            : n \in 0 .. MaxTx }

\* --limit: the small numbers and the two ends of int
Limits == { IntOf(n) : n \in (0 - 1) .. (MaxTx + 1) } \cup {MinInt, MaxInt}

\* --name, --max, --min, --type
NameFlags == {"", "Rent", "Salary"}
MaxFlags  == {<<>>, String(150)}
MinFlags  == {<<>>, String(100), String(200)}
TypeFlags == {"", "wd", " WD ", "draw", "Deposit", "foo"}

InitQuery ==
    /\ ValueOff /\ FileOff
    /\ db \in QueryLedgers
    /\ now = 0 /\ stored = <<>> /\ removed = {} /\ last = LastNone
    /\ query = NoQuery

\* a command has not run yet; it leaves everything but its own output alone
QueryStarts ==
    /\ query = NoQuery
    /\ UNCHANGED <<valueVars, fileVars, db, now, stored, removed, last>>

\* listAction
QList ==
    /\ QueryStarts
    /\ \E limit \in Limits :
        LET r == Latest(db, limit)
        IN  query' = [op |-> "list", ledger |-> db, limit |-> limit,
                      name |-> "", max |-> <<>>, min |-> <<>>, type |-> "",
                      err |-> r.err, idMap |-> r.idMap,
                      balance |-> TableBalance(r.idMap)]

\* filterAction
QFilter ==
    /\ QueryStarts
    /\ \E name \in NameFlags, maxText \in MaxFlags, minText \in MinFlags,
          type \in TypeFlags :
        LET r == Filter(db, name, maxText, minText, type)
        IN  query' = [op |-> "filter", ledger |-> db, limit |-> IntOf(0),
                      name |-> name, max |-> maxText, min |-> minText,
                      type |-> type,
                      err |-> r.err, idMap |-> r.idMap,
                      balance |-> TableBalance(r.idMap)]

\* the earlier listAction: every transaction, the balance over all of them
QListAll ==
    /\ QueryStarts
    /\ LET r == ListAllLoop(db, 0, 0)
       IN  query' = [op |-> "listAll", ledger |-> db, limit |-> IntOf(0),
                  name |-> "", max |-> <<>>, min |-> <<>>, type |-> "",
                  err |-> r.err,
                  idMap |-> [id \in 0 .. Size(db) - 1 |-> At(db.Transactions, id)],
                  balance |-> r.balance]

NextQuery == QList \/ QFilter \/ QListAll

SpecQuery == InitQuery /\ [][NextQuery]_vars

(***************************************************************************)
(* Claims about the query layer                                            *)
(***************************************************************************)
Queried == query.op # "none"

\* the IDs a command listed, and the sum of the amounts of one kind among them
Shown == DOMAIN query.idMap

RECURSIVE SumOfKind(_, _)
SumOfKind(kind, S) ==
    IF S = {} THEN 0
    ELSE LET x == CHOOSE y \in S : TRUE
         IN  (IF query.idMap[x].Type = kind THEN query.idMap[x].Amount ELSE 0)
             + SumOfKind(kind, S \ {x})

KindsAndAmounts == [i \in DOMAIN db.Transactions |->
                       <<db.Transactions[i].Type, db.Transactions[i].Amount>>]

NamedKind(type) ==
    IF LowerTrim(type) \in {"wd", "withdraw", "draw"} THEN Withdraw
    ELSE IF LowerTrim(type) \in {"dp", "deposit", "depo"} THEN Deposit
    ELSE "none"

\* the predicates of the last filter command, applied to one transaction;
\* lenient: a type text that names no kind is no constraint
Satisfies(t, lenient) ==
    /\ query.name # "" => t.Name = query.name
    /\ Parse(query.min) # ZeroValue => t.Amount >= Parse(query.min)
    /\ Parse(query.max) # ZeroValue => t.Amount <= Parse(query.max)
    /\ query.type # "" =>
           \/ t.Type = NamedKind(query.type)
           \/ lenient /\ NamedKind(query.type) = "none"

FilterReturns(lenient) ==
    /\ query.err = Nil
    /\ Shown = { id \in 0 .. Size(db) - 1 : Satisfies(At(db.Transactions, id), lenient) }
    /\ \A id \in Shown : query.idMap[id] = At(db.Transactions, id)

FilterExample ==
    /\ KindsAndAmounts = <<<<Withdraw, 50>>, <<Withdraw, 150>>, <<Deposit, 200>>>>
    /\ query.op = "filter"
    /\ query.type = "wd" /\ query.min = String(100)
    /\ query.name = "" /\ query.max = <<>>

\* C12 as stated: filter returns exactly the entries, keyed by their
\* positional ID, that satisfy every supplied predicate: name equal, amount
\* >= min, amount <= max, kind equal to the kind the type text names; an
\* empty text or zero Value is no constraint.  A non-empty type text that
\* names no kind is satisfied by no entry.
C12_FilterExact ==
    query.op = "filter" => FilterReturns(FALSE)

\* C12, amended: as above, and a non-empty type text that is none of the six
\* synonyms imposes no constraint either.  Kind "wd" and min 1.00 over
\* [Withdraw 50, Withdraw 150, Deposit 200] returns only ID 1.
C12_FilterLenient ==
    /\ query.op = "filter" => FilterReturns(TRUE)
    /\ FilterExample => Shown = {1}

C12_Witness ==
    /\ FilterExample
    /\ Shown = {1}
    /\ query.idMap[1].Amount = 150

\* a filter whose type text names no kind: every entry is returned
C12_UnknownTypeWitness ==
    /\ query.op = "filter" /\ query.type = "foo"
    /\ query.name = "" /\ query.min = <<>> /\ query.max = <<>>
    /\ Size(db) = 2 /\ Shown = {0, 1}

\* the entries Latest(n) is to return: indices max(0, Size - n) .. Size - 1,
\* none for n <= 0
LatestIDs(d, n) ==
    IF n.hi < 0 \/ (n.hi = 0 /\ n.lo <= 0) THEN {}
    ELSE IF n.hi > 0 THEN 0 .. Size(d) - 1
    ELSE (IF Size(d) - n.lo > 0 THEN Size(d) - n.lo ELSE 0) .. Size(d) - 1

LatestReturns ==
    /\ query.err = Nil
    /\ Shown = LatestIDs(db, query.limit)
    /\ \A id \in Shown : query.idMap[id] = At(db.Transactions, id)

\* C13: list with limit n returns exactly the entries at indices
\* max(0, Size - n) .. Size - 1, keyed by their positional ID: min(n, Size)
\* entries for n >= 0 and none for n <= 0.
C13_Latest ==
    query.op = "list" => LatestReturns

\* the same for every limit whose subtraction from Size does not wrap
\* around; after Salary then Rent, limit 1 returns only Rent with ID 1
LatestWithoutOverflow ==
    /\ (query.op = "list" /\ query.limit # MinInt) => LatestReturns
    /\ (/\ query.op = "list" /\ query.limit = IntOf(1)
        /\ KindsAndAmounts = <<<<Deposit, 250000>>, <<Withdraw, 90000>>>>)
       => (Shown = {1} /\ query.idMap[1].Name = "Rent")

\* limit = the least int on a ledger of two: both entries are listed
LatestOverflowWitness ==
    /\ query.op = "list" /\ query.limit = MinInt
    /\ Size(db) = 2 /\ Shown = {0, 1}

====
